---- MODULE Spec2Model ----
(***************************************************************************)
(* Model of edyna-consumer-stats: the store layer (saveDailyHourlyData of  *)
(* src/src/scheduler.js, the most recent revision of the database module)  *)
(* and the scrape pipeline (main of src/unnamed/part_000).                 *)
(*                                                                         *)
(* kWh values are fixed-point integers in units of 0.0005 kWh, so that     *)
(* 5.0 kWh = 10000, 5.0005 kWh = 10001 and the code's epsilon 0.001 kWh is *)
(* 2 units.  Timestamps are instants counted in hours since 1970-01-01     *)
(* 00:00 UTC.  A step of a client is the code between two awaits.          *)
(***************************************************************************)
EXTENDS Integers, Sequences, FiniteSets, TLC

VARIABLES
    tz,             \* process time zone: local time = UTC + tz hours
    table,          \* committed rows of daily_hourly_consumption
    clock,          \* database clock: NOW() is the transaction's start time
    calls,          \* number of saveDailyHourlyData calls started so far
    pc,             \* per client: position inside saveDailyHourlyData
    batch,          \* per client: the dailyData argument of the current call
    dayIdx,         \* per client: index of the day the for-loop is at
    hourIdx,        \* per client: h of the inner loop
    existingKwh,    \* per client: result of the last SELECT (NullNum: no row)
    insertedCount,  \* per client
    updatedCount,   \* per client
    writes,         \* per client: rows written by the open transaction
    txNow,          \* per client: NOW() of the open transaction
    err,            \* per client: the error caught by the catch block
    outcome,        \* per client: what the call returned or threw
    tableBefore,    \* per client: committed table when the call started
    repeated,       \* per client: the call re-applies the batch of the call before
    acquired,       \* per client: clients the current call took from the pool
    released,       \* per client: client.release() calls of the current call
    phase,          \* pipeline run: position inside main()
    running,        \* pipeline run: the phase's function was called and has not settled
    started,        \* pipeline run: phases started so far, in order
    page,           \* pipeline run: what the run has observed of the portal and done to it
    monthlyData,    \* pipeline run: result of scrapeMonthlyActiveEnergy
    monthName,      \* pipeline run: result of findLatestNonNullMonthAndClick
    exitCode,       \* pipeline run: process.exitCode
    browserOpen,    \* pipeline run: a launched browser not yet closed
    log,            \* pipeline run: the messages logged so far
    dailyData,      \* pipeline run: result of scrapeDailyHourlyUsage
    written,        \* pipeline run: the daily output file has been written
    cell,           \* number normalizer: the raw text of the cell, as characters
    parser,         \* number normalizer: which of the two normalizers was applied
    value,          \* number normalizer: what it returned
    row,            \* hourly table: the value cells of the row being processed
    dayReading,     \* hourly table: what the row's processing produced
    grid,           \* monthly grid: its columns, header text and value link
    monthly,        \* monthly grid: what scrapeMonthlyActiveEnergy's evaluate returned
    tables,         \* daily page: the tables of the document, in document order
    chosen,         \* daily page: the table scrapeDailyHourlyUsage picked
    pool,           \* db module: the pool variable; 0 is null, n the nth Pool
    poolCount,        \* db module: number of Pools constructed so far
    ended,          \* db module: for each Pool, how often end() was called on it
    schema,         \* database: which schema objects exist
    dbEnv,          \* environment: credentials set, TimescaleDB installed
    ops,            \* number of initializeSchema and closePool calls so far
    poolOut,        \* the last initializeSchema or closePool call and its result
    children,       \* scheduler: the child processes spawned so far, in order
    sched           \* scheduler: its environment and whether it is up

storeVars == <<tz, table, clock, calls, pc, batch, dayIdx, hourIdx, existingKwh,
               insertedCount, updatedCount, writes, txNow, err, outcome,
               tableBefore, repeated, acquired, released>>
connVars == <<acquired, released>>
runVars == <<phase, running, started, page, monthlyData, monthName, exitCode,
            browserOpen, log, dailyData, written>>
textVars == <<cell, parser, value>>
rowVars == <<row, dayReading, grid, monthly, tables, chosen>>
poolVars == <<pool, poolCount, ended, schema, dbEnv, ops, poolOut>>
schedVars == <<children, sched>>
restVars == <<textVars, rowVars, poolVars, schedVars>>
vars == <<storeVars, runVars, restVars>>

\* null for a string; an optional number is <<>> (null) or <<n>>; a Date is a
\* record saying whether it is valid and which instant it is
Null == "null"
NullNum == <<>>
Num(n) == <<n>>
InvalidDate == [valid |-> FALSE, time |-> 0]
DateAt(t) == [valid |-> TRUE, time |-> t]

----------------------------------------------------------------------------
(* Bounds and program constants *)

MaxCalls == 2
MaxDays == 2
MaxMonths == 3
MaxText == 3
HOURS_PER_DAY == 24
Epsilon == 2
RomeOffset == 1

Clients == {"A", "B"}
KwhVals == {8000, 10000, 10001, 10003, 12000}
Months == {"Gennaio", "Febbraio"}

----------------------------------------------------------------------------
(* Date strings and their reconstruction (scheduler.js 169-193) *)

DateChars(s) ==
    CASE s = "01/01/2025" -> <<"0","1","/","0","1","/","2","0","2","5">>
      [] s = "02.01.2025" -> <<"0","2",".","0","1",".","2","0","2","5">>
      [] s = "not-a-date" -> <<"n","o","t","-","a","-","d","a","t","e">>
      [] s = "01/11/2025" -> <<"0","1","/","1","1","/","2","0","2","5">>
      [] s = "01.11.2025" -> <<"0","1",".","1","1",".","2","0","2","5">>
      [] s = "2025-11-01" -> <<"2","0","2","5","-","1","1","-","0","1">>
      [] s = "31/02/2025" -> <<"3","1","/","0","2","/","2","0","2","5">>
      [] s = "00/13/2025" -> <<"0","0","/","1","3","/","2","0","2","5">>

DateStrs == {"01/01/2025", "02.01.2025", "not-a-date"}

\* one day in the three notations, and two strings that name no day
CalendarStrs == {"01/11/2025", "01.11.2025", "2025-11-01", "31/02/2025", "00/13/2025"}

DigitChars == <<"0","1","2","3","4","5","6","7","8","9">>

IsDigit(ch) == \E i \in 1..Len(DigitChars) : DigitChars[i] = ch

DigitVal(ch) == (CHOOSE i \in 1..Len(DigitChars) : DigitChars[i] = ch) - 1

RECURSIVE ToNumber(_)
ToNumber(cs) ==
    IF cs = <<>> THEN 0
    ELSE 10 * ToNumber(SubSeq(cs, 1, Len(cs) - 1)) + DigitVal(cs[Len(cs)])

AllDigits(cs, from, to) == \A i \in from..to : IsDigit(cs[i])

\* /^\d{2}[/.]\d{2}[/.]\d{4}$/
MatchesDMY(cs) ==
    /\ Len(cs) = 10
    /\ AllDigits(cs, 1, 2) /\ AllDigits(cs, 4, 5) /\ AllDigits(cs, 7, 10)
    /\ cs[3] \in {"/", "."} /\ cs[6] \in {"/", "."}

\* /^\d{4}-\d{2}-\d{2}$/
MatchesISO(cs) ==
    /\ Len(cs) = 10
    /\ AllDigits(cs, 1, 4) /\ AllDigits(cs, 6, 7) /\ AllDigits(cs, 9, 10)
    /\ cs[5] = "-" /\ cs[8] = "-"

\* Days from 1970-01-01 to the first day of month m (0-based) of year y.
DaysFromCivil(y, m) ==
    LET yy == IF m < 2 THEN y - 1 ELSE y
        era == yy \div 400
        yoe == yy - era * 400
        mp == (m + 10) % 12
        doy == (153 * mp + 2) \div 5
        doe == yoe * 365 + yoe \div 4 - yoe \div 100 + doy
    IN era * 146097 + doe - 719468

\* new Date(y, m - 1, d): local midnight, out-of-range month and day roll over,
\* a year 0..99 means 1900 + year.
LocalDate(y, mIndex, d, z) ==
    LET fullYear == IF y <= 99 THEN 1900 + y ELSE y
        ym == fullYear + (mIndex \div 12)
        mn == mIndex % 12
    IN DateAt((DaysFromCivil(ym, mn) + d - 1) * 24 - z)

\* new Date("YYYY-MM-DD"): UTC midnight; V8 accepts month 1..12 and day 1..31
\* (a day past the month's end rolls over) and yields an invalid date otherwise.
UtcDate(y, m, d) ==
    IF m \in 1..12 /\ d \in 1..31
    THEN DateAt((DaysFromCivil(y, m - 1) + d - 1) * 24)
    ELSE InvalidDate

\* new Date(dateStr) for a string none of the patterns matches: the strings of
\* DateStrs that reach it are not dates in any notation V8 parses.
NativeDate(cs) == InvalidDate

\* the date reconstruction of saveDailyHourlyData in a process of time zone z
ParseDateIn(s, z) ==
    LET cs == DateChars(s)
    IN IF MatchesDMY(cs)
       THEN LocalDate(ToNumber(SubSeq(cs, 7, 10)),
                      ToNumber(SubSeq(cs, 4, 5)) - 1,
                      ToNumber(SubSeq(cs, 1, 2)), z)
       ELSE IF MatchesISO(cs)
       THEN UtcDate(ToNumber(SubSeq(cs, 1, 4)), ToNumber(SubSeq(cs, 6, 7)),
                    ToNumber(SubSeq(cs, 9, 10)))
       ELSE NativeDate(cs)

\* process time zones: Europe/Rome in winter, UTC, and a zone west of UTC
TimeZones == {RomeOffset, 0, -5}

ParsedDates ==
    [z \in TimeZones |-> [s \in DateStrs \cup CalendarStrs |-> ParseDateIn(s, z)]]

ParseDate(s) == ParsedDates[tz][s]

\* const recordTimestamp = new Date(timestamp); recordTimestamp.setHours(h, 0, 0, 0)
RecordTimestamp(timestamp, h) == ((timestamp.time + tz) \div 24) * 24 + h - tz

----------------------------------------------------------------------------
(* Hour labels and the hours mapping of a DayReading *)

HourLabels ==
    <<"00:00", "01:00", "02:00", "03:00", "04:00", "05:00", "06:00", "07:00",
      "08:00", "09:00", "10:00", "11:00", "12:00", "13:00", "14:00", "15:00",
      "16:00", "17:00", "18:00", "19:00", "20:00", "21:00", "22:00", "23:00">>

\* the label of the hour after h
HourLabelShift(h) == HourLabels[((h + 1) % HOURS_PER_DAY) + 1]

\* `${String(h).padStart(2, '0')}:00`
HourLabel(h) == HourLabels[h + 1]

\* day.hours[hourLabel]: an undefined (absent) key is skipped like a null one
HourValue(day, h) ==
    IF HourLabel(h) \in DOMAIN day.hours THEN day.hours[HourLabel(h)] ELSE NullNum

----------------------------------------------------------------------------
(* Batches handed to saveDailyHourlyData *)

LabelSet == {HourLabels[i] : i \in 1..Len(HourLabels)}

\* a table row with two value cells: "00:00" is empty, "01:00" reads v, and the
\* other labels are absent (scrapeDailyHourlyUsage's Math.min(24, length))
SlotDay(v) == [l \in {"00:00", "01:00"} |-> IF l = "01:00" THEN Num(v) ELSE NullNum]

FullDay(v) == [l \in LabelSet |-> Num(v)]

\* the days of a batch of several days: the first day with a low and a high
\* value, the second day and an unparsable date
SeqChoices ==
    {[date |-> "01/01/2025", hours |-> SlotDay(10000)],
     [date |-> "01/01/2025", hours |-> SlotDay(12000)],
     [date |-> "02.01.2025", hours |-> SlotDay(10000)],
     [date |-> "not-a-date", hours |-> SlotDay(12000)]}

\* the day of a batch of one day: the first day with every value as well
DayChoices ==
    {[date |-> "01/01/2025", hours |-> SlotDay(v)] : v \in KwhVals} \cup SeqChoices

DaySeqs ==
    {<<d>> : d \in DayChoices} \cup UNION {[1..n -> SeqChoices] : n \in 2..MaxDays}

\* one day with all 24 hours read as 1,00 kWh
FullBatch ==
    [month |-> "Gennaio", days |-> <<[date |-> "01/01/2025", hours |-> FullDay(2000)]>>]

Batches == {[month |-> m, days |-> ds] : m \in Months, ds \in DaySeqs} \cup {FullBatch}

NoBatch == [month |-> Null, days |-> <<>>]

----------------------------------------------------------------------------
(* The table and the statements of saveDailyHourlyData *)

RowsAt(rows, ts, h) == {r \in rows : r.timestamp = ts /\ r.hour = h}

\* what a statement of client c sees: its own writes over the committed rows
Visible(c, ts, h) ==
    IF RowsAt(writes[c], ts, h) # {} THEN RowsAt(writes[c], ts, h)
    ELSE RowsAt(table, ts, h)

\* SELECT kwh ... WHERE timestamp = $1 AND hour = $2;
\* existingResult.rows.length > 0 ? existingResult.rows[0].kwh : null
SelectKwh(c, ts, h) ==
    IF Visible(c, ts, h) = {} THEN NullNum
    ELSE Num((CHOOSE r \in Visible(c, ts, h) : TRUE).kwh)

\* the comparison of the first revision of the module (part_001 line 161)
ShouldUpdateNoEpsilon(kwh, existing) == existing = NullNum \/ kwh > existing[1]

\* a blind upsert: every reading is written
ShouldUpdateAlways(kwh, existing) == TRUE

\* >= where the code has >: an equal reading is written again
ShouldUpdateAtLeast(kwh, existing) == existing = NullNum \/ kwh - existing[1] >= 0

\* a tolerance twice as wide
ShouldUpdateWide(kwh, existing) == existing = NullNum \/ kwh - existing[1] > 2 * Epsilon

\* const shouldUpdate = existingKwh === null || (kwh - existingKwh > 0.001)
ShouldUpdate(kwh, existing) == existing = NullNum \/ kwh - existing[1] > Epsilon

\* INSERT ... ON CONFLICT (timestamp, hour) DO UPDATE SET kwh, month_name,
\* source_date, updated_at = NOW(): the rows of c's transaction afterwards
UpsertRows(c, ts, h, kwh, month, src) ==
    LET cur == Visible(c, ts, h)
    IN IF cur = {}
       THEN writes[c] \cup
            {[timestamp |-> ts, hour |-> h, kwh |-> kwh, month_name |-> month,
              source_date |-> src, created_at |-> txNow[c], updated_at |-> txNow[c]]}
       ELSE (writes[c] \ RowsAt(writes[c], ts, h)) \cup
            {[r EXCEPT !.kwh = kwh, !.month_name = month, !.source_date = src,
                       !.updated_at = txNow[c]] : r \in cur}

\* COMMIT: the transaction's rows replace the committed rows of the same keys
CommitRows(c) ==
    {r \in table : RowsAt(writes[c], r.timestamp, r.hour) = {}} \cup writes[c]

\* `break` where the code has `continue`: an invalid date ends the day loop
RECURSIVE NextReadingBreak(_, _, _)
NextReadingBreak(b, di, h) ==
    IF di > Len(b.days) THEN <<0, 0>>
    ELSE IF ~ParseDate(b.days[di].date).valid THEN <<0, 0>>
    ELSE IF h >= HOURS_PER_DAY THEN NextReadingBreak(b, di + 1, 0)
    ELSE IF HourValue(b.days[di], h) = NullNum THEN NextReadingBreak(b, di, h + 1)
    ELSE <<di, h>>

\* the hour loop one short: h < HOURS_PER_DAY - 1
RECURSIVE NextReadingShort(_, _, _)
NextReadingShort(b, di, h) ==
    IF di > Len(b.days) THEN <<0, 0>>
    ELSE IF ~ParseDate(b.days[di].date).valid THEN NextReadingShort(b, di + 1, 0)
    ELSE IF h >= HOURS_PER_DAY - 1 THEN NextReadingShort(b, di + 1, 0)
    ELSE IF HourValue(b.days[di], h) = NullNum THEN NextReadingShort(b, di, h + 1)
    ELSE <<di, h>>

\* The next (day, h) at or after (di, h) for which the loops reach the SELECT:
\* days with an invalid date and null or undefined slots are skipped.
\* <<0, 0>>: the loops are over.
RECURSIVE NextReading(_, _, _)
NextReading(b, di, h) ==
    IF di > Len(b.days) THEN <<0, 0>>
    ELSE IF ~ParseDate(b.days[di].date).valid THEN NextReading(b, di + 1, 0)
    ELSE IF h >= HOURS_PER_DAY THEN NextReading(b, di + 1, 0)
    ELSE IF HourValue(b.days[di], h) = NullNum THEN NextReading(b, di, h + 1)
    ELSE <<di, h>>

CurDay(c) == batch[c].days[dayIdx[c]]
CurKwh(c) == HourValue(CurDay(c), hourIdx[c])[1]
CurTimestamp(c) == RecordTimestamp(ParseDate(CurDay(c).date), hourIdx[c])

\* another open transaction wrote the row of this key and has not finished
LockedByOther(c, ts, h) ==
    \E o \in Clients \ {c} : RowsAt(writes[o], ts, h) # {}

NoOutcome == [kind |-> "none"]
Returned(i, u) == [kind |-> "returned", insertedCount |-> i, updatedCount |-> u]
Threw(e) == [kind |-> "threw", error |-> e]

----------------------------------------------------------------------------
(* saveDailyHourlyData, one action per await (scheduler.js 157-255) *)

\* position of the loops after (di, h) has been dealt with
Advance(c, di, h) ==
    LET nx == NextReading(batch[c], di, h)
    IN IF nx = <<0, 0>>
       THEN /\ pc' = [pc EXCEPT ![c] = "commit"]
            /\ UNCHANGED <<dayIdx, hourIdx>>
       ELSE /\ pc' = [pc EXCEPT ![c] = "select"]
            /\ dayIdx' = [dayIdx EXCEPT ![c] = nx[1]]
            /\ hourIdx' = [hourIdx EXCEPT ![c] = nx[2]]

\* the locals of a call of saveDailyHourlyData(b) at its first line
Locals(c, b, again) ==
    /\ batch' = [batch EXCEPT ![c] = b]
    /\ repeated' = [repeated EXCEPT ![c] = again]
    /\ dayIdx' = [dayIdx EXCEPT ![c] = 0]
    /\ hourIdx' = [hourIdx EXCEPT ![c] = 0]
    /\ existingKwh' = [existingKwh EXCEPT ![c] = NullNum]
    /\ insertedCount' = [insertedCount EXCEPT ![c] = 0]
    /\ updatedCount' = [updatedCount EXCEPT ![c] = 0]
    /\ err' = [err EXCEPT ![c] = Null]
    /\ outcome' = [outcome EXCEPT ![c] = NoOutcome]
    /\ tableBefore' = [tableBefore EXCEPT ![c] = table]
    /\ acquired' = [acquired EXCEPT ![c] = 0]
    /\ released' = [released EXCEPT ![c] = 0]

StartCall(c, b, again) ==
    /\ calls < MaxCalls
    /\ calls' = calls + 1
    /\ pc' = [pc EXCEPT ![c] = "connect"]
    /\ Locals(c, b, again)
    /\ UNCHANGED <<tz, table, clock, writes, txNow, runVars, restVars>>

\* saveDailyHourlyData(dailyData) is called
Call(c, b) ==
    /\ pc[c] = "idle"
    /\ StartCall(c, b, FALSE)

\* saveDailyHourlyData is called again with the batch it has just committed
CallAgain(c) ==
    /\ pc[c] = "returned"
    /\ StartCall(c, batch[c], TRUE)

\* the caller has taken the result or the error; the call's frame is gone
Settle(c) ==
    /\ pc[c] \in {"returned", "threw"}
    /\ pc' = [pc EXCEPT ![c] = "idle"]
    /\ Locals(c, NoBatch, FALSE)
    /\ UNCHANGED <<tz, table, clock, calls, writes, txNow, runVars, restVars>>

\* if (!pool) that is taken whatever the variable holds
NeedsPoolAlways(p) == TRUE

\* getPool: if (!pool)
NeedsPool(p) == p = 0

\* getPool throws: a pool is needed and DB_USER or DB_PASSWORD is not set
GetPoolThrows == NeedsPool(pool) /\ ~dbEnv.credentials

\* getPool returns: pool = new Pool(config) when one is needed
GetPool ==
    IF NeedsPool(pool)
    THEN /\ poolCount' = poolCount + 1
         /\ pool' = poolCount + 1
         /\ ended' = Append(ended, 0)
    ELSE UNCHANGED <<pool, poolCount, ended>>

\* const client = await getPool().connect()
Connect(c) ==
    /\ pc[c] = "connect"
    /\ ~GetPoolThrows
    /\ GetPool
    /\ acquired' = [acquired EXCEPT ![c] = @ + 1]
    /\ pc' = [pc EXCEPT ![c] = "begin"]
    /\ UNCHANGED <<tz, table, clock, calls, batch, dayIdx, hourIdx, existingKwh,
                   insertedCount, updatedCount, writes, txNow, err, outcome,
                   tableBefore, repeated, released, runVars, textVars, rowVars,
                   schema, dbEnv, ops, poolOut, schedVars>>

\* getPool throws or connect() rejects: the call throws before the try block
\* is entered
ConnectFails(c) ==
    /\ pc[c] = "connect"
    /\ pc' = [pc EXCEPT ![c] = "threw"]
    /\ outcome' = [outcome EXCEPT ![c] = Threw("connect")]
    /\ IF GetPoolThrows THEN UNCHANGED <<pool, poolCount, ended>> ELSE GetPool
    /\ UNCHANGED <<tz, table, clock, calls, batch, dayIdx, hourIdx, existingKwh,
                   insertedCount, updatedCount, writes, txNow, err,
                   tableBefore, repeated, connVars, runVars, textVars, rowVars,
                   schema, dbEnv, ops, poolOut, schedVars>>

\* await client.query('BEGIN'), then the loops up to the first SELECT
Begin(c) ==
    /\ pc[c] = "begin"
    /\ clock' = clock + 1
    /\ txNow' = [txNow EXCEPT ![c] = clock + 1]
    /\ Advance(c, 1, 0)
    /\ UNCHANGED <<tz, table, calls, batch, existingKwh, insertedCount,
                   updatedCount, writes, err, outcome, tableBefore, repeated,
                   runVars, restVars,
                   connVars>>

\* the SELECT returns; shouldUpdate decides between the UPSERT and `continue`
Select(c) ==
    /\ pc[c] = "select"
    /\ LET e == SelectKwh(c, CurTimestamp(c), hourIdx[c])
       IN /\ existingKwh' = [existingKwh EXCEPT ![c] = e]
          /\ IF ShouldUpdate(CurKwh(c), e)
             THEN /\ pc' = [pc EXCEPT ![c] = "upsert"]
                  /\ UNCHANGED <<dayIdx, hourIdx>>
             ELSE Advance(c, dayIdx[c], hourIdx[c] + 1)
    /\ UNCHANGED <<tz, table, clock, calls, batch, insertedCount, updatedCount,
                   writes, txNow, err, outcome, tableBefore, repeated, runVars, restVars,
                   connVars>>

\* the INSERT ... ON CONFLICT returns; the counters; on to the next SELECT.
\* The statement waits while another open transaction holds the row.
Upsert(c) ==
    /\ pc[c] = "upsert"
    /\ ~LockedByOther(c, CurTimestamp(c), hourIdx[c])
    /\ writes' = [writes EXCEPT ![c] =
                    UpsertRows(c, CurTimestamp(c), hourIdx[c], CurKwh(c),
                               batch[c].month, CurDay(c).date)]
    /\ IF existingKwh[c] = NullNum
       THEN /\ insertedCount' = [insertedCount EXCEPT ![c] = @ + 1]
            /\ UNCHANGED updatedCount
       ELSE /\ updatedCount' = [updatedCount EXCEPT ![c] = @ + 1]
            /\ UNCHANGED insertedCount
    /\ Advance(c, dayIdx[c], hourIdx[c] + 1)
    /\ UNCHANGED <<tz, table, clock, calls, batch, existingKwh, txNow, err,
                   outcome, tableBefore, repeated, runVars, restVars,
                   connVars>>

\* a call without the finally block
ReleasesNone(n) == 0

\* finally { client.release() }: the releases of a call that acquired n clients
Releases(n) == n

\* the finally block of saveDailyHourlyData runs as the call settles
ReleaseClient(c) == released' = [released EXCEPT ![c] = Releases(acquired[c])]

\* await client.query('COMMIT'); return { insertedCount, updatedCount }; finally
Commit(c) ==
    /\ pc[c] = "commit"
    /\ table' = CommitRows(c)
    /\ writes' = [writes EXCEPT ![c] = {}]
    /\ pc' = [pc EXCEPT ![c] = "returned"]
    /\ outcome' = [outcome EXCEPT ![c] = Returned(insertedCount[c], updatedCount[c])]
    /\ ReleaseClient(c)
    /\ UNCHANGED <<tz, clock, calls, batch, dayIdx, hourIdx, existingKwh,
                   insertedCount, updatedCount, txNow, err, tableBefore,
                   repeated, runVars, restVars,
                   acquired>>

\* a statement inside the try block rejects (the statement has no effect):
\* control passes to the catch block, which awaits the ROLLBACK; the variables
\* declared inside the try block are out of scope there
QueryFails(c) ==
    /\ pc[c] \in {"begin", "select", "upsert", "commit"}
    /\ err' = [err EXCEPT ![c] = pc[c]]
    /\ pc' = [pc EXCEPT ![c] = "rollback"]
    /\ dayIdx' = [dayIdx EXCEPT ![c] = 0]
    /\ hourIdx' = [hourIdx EXCEPT ![c] = 0]
    /\ existingKwh' = [existingKwh EXCEPT ![c] = NullNum]
    /\ insertedCount' = [insertedCount EXCEPT ![c] = 0]
    /\ updatedCount' = [updatedCount EXCEPT ![c] = 0]
    /\ UNCHANGED <<tz, table, clock, calls, batch, writes, txNow, outcome,
                   tableBefore, repeated, runVars, restVars,
                   connVars>>

\* await client.query('ROLLBACK'); throw err
Rollback(c) ==
    /\ pc[c] = "rollback"
    /\ writes' = [writes EXCEPT ![c] = {}]
    /\ pc' = [pc EXCEPT ![c] = "threw"]
    /\ outcome' = [outcome EXCEPT ![c] = Threw(err[c])]
    /\ ReleaseClient(c)
    /\ UNCHANGED <<tz, table, clock, calls, batch, dayIdx, hourIdx, existingKwh,
                   insertedCount, updatedCount, txNow, err, tableBefore,
                   repeated, runVars, restVars,
                   acquired>>

\* the ROLLBACK itself rejects (the connection is gone, the server drops the
\* open transaction): its rejection leaves the catch block instead of err
RollbackFails(c) ==
    /\ pc[c] = "rollback"
    /\ writes' = [writes EXCEPT ![c] = {}]
    /\ pc' = [pc EXCEPT ![c] = "threw"]
    /\ outcome' = [outcome EXCEPT ![c] = Threw("rollback")]
    /\ ReleaseClient(c)
    /\ UNCHANGED <<tz, table, clock, calls, batch, dayIdx, hourIdx, existingKwh,
                   insertedCount, updatedCount, txNow, err, tableBefore,
                   repeated, runVars, restVars,
                   acquired>>

\* the INSERT of c waits for a row held by o while o's INSERT waits for a row
\* held by c: the database detects the deadlock and makes c's statement fail
DeadlockDetected(c) ==
    /\ pc[c] = "upsert"
    /\ \E o \in Clients \ {c} :
          /\ pc[o] = "upsert"
          /\ RowsAt(writes[o], CurTimestamp(c), hourIdx[c]) # {}
          /\ RowsAt(writes[c], CurTimestamp(o), hourIdx[o]) # {}
    /\ err' = [err EXCEPT ![c] = "deadlock"]
    /\ pc' = [pc EXCEPT ![c] = "rollback"]
    /\ dayIdx' = [dayIdx EXCEPT ![c] = 0]
    /\ hourIdx' = [hourIdx EXCEPT ![c] = 0]
    /\ existingKwh' = [existingKwh EXCEPT ![c] = NullNum]
    /\ insertedCount' = [insertedCount EXCEPT ![c] = 0]
    /\ updatedCount' = [updatedCount EXCEPT ![c] = 0]
    /\ UNCHANGED <<tz, table, clock, calls, batch, writes, txNow, outcome,
                   tableBefore, repeated, runVars, restVars,
                   connVars>>

----------------------------------------------------------------------------
(* Specifications *)

NoMonthly == [months |-> <<>>, parsed |-> <<>>]

\* an empty table and no call in progress
StoreEmpty ==
    /\ table = {}
    /\ clock = 0
    /\ calls = 0
    /\ pc = [c \in Clients |-> "idle"]
    /\ batch = [c \in Clients |-> NoBatch]
    /\ dayIdx = [c \in Clients |-> 0]
    /\ hourIdx = [c \in Clients |-> 0]
    /\ existingKwh = [c \in Clients |-> NullNum]
    /\ insertedCount = [c \in Clients |-> 0]
    /\ updatedCount = [c \in Clients |-> 0]
    /\ writes = [c \in Clients |-> {}]
    /\ txNow = [c \in Clients |-> 0]
    /\ err = [c \in Clients |-> Null]
    /\ outcome = [c \in Clients |-> NoOutcome]
    /\ tableBefore = [c \in Clients |-> {}]
    /\ repeated = [c \in Clients |-> FALSE]
    /\ acquired = [c \in Clients |-> 0]
    /\ released = [c \in Clients |-> 0]

StoreInit ==
    /\ tz = RomeOffset
    /\ StoreEmpty

\* nothing observed yet: the browser is at the login form
NoPage ==
    [urlChanged |-> FALSE, loginPanelExists |-> TRUE, urlHasLogin |-> TRUE,
     menuClicked |-> FALSE, tabExists |-> FALSE, tableExists |-> FALSE,
     curveButton |-> TRUE, curveClicked |-> FALSE, gridPresent |-> TRUE,
     lastNonNullIndex |-> -1, lastNonNullMonth |-> Null, linkClicked |-> FALSE,
     dailyTable |-> "unknown"]

\* scrapeDailyHourlyUsage has not returned / returned null
NoDaily == [isNull |-> TRUE, days |-> 0]

RunIdle ==
    /\ phase = "idle"
    /\ running = FALSE
    /\ started = <<>>
    /\ page = NoPage
    /\ monthlyData = NoMonthly
    /\ monthName = Null
    /\ exitCode = 0
    /\ browserOpen = FALSE
    /\ log = {}
    /\ dailyData = NoDaily
    /\ written = FALSE

\* no cell has been normalized
\* no row of the hourly table processed yet
NoDay == [done |-> FALSE]

\* the monthly grid not read yet
NoGrid == [done |-> FALSE]

NoSchema == [table |-> FALSE, hypertable |-> FALSE, index |-> FALSE]

NoOp ==
    [op |-> "none", result |-> "none", fault |-> "none", before |-> NoSchema,
     poolBefore |-> 0, acquired |-> 0, released |-> 0]

\* let pool = null; nothing in the database; no call made
PoolStart ==
    /\ pool = 0
    /\ poolCount = 0
    /\ ended = <<>>
    /\ schema = NoSchema
    /\ ops = 0
    /\ poolOut = NoOp

\* the scheduler process has not been started
SchedIdle ==
    /\ children = <<>>
    /\ sched = [up |-> FALSE, exited |-> FALSE, runOnStart |-> FALSE]

\* credentials set and TimescaleDB installed
PoolIdle ==
    /\ PoolStart
    /\ dbEnv = [credentials |-> TRUE, timescale |-> TRUE]

TextIdle ==
    /\ cell = <<>>
    /\ parser = "none"
    /\ value = NullNum
    /\ row = <<>>
    /\ dayReading = NoDay
    /\ grid = <<>>
    /\ monthly = NoGrid
    /\ tables = <<>>
    /\ chosen = [done |-> FALSE]

Init == StoreInit /\ RunIdle /\ TextIdle /\ PoolIdle /\ SchedIdle

\* one process calling saveDailyHourlyData again and again
Next ==
    \/ \E b \in Batches : Call("A", b)
    \/ CallAgain("A")
    \/ Settle("A")
    \/ Connect("A")
    \/ ConnectFails("A")
    \/ Begin("A")
    \/ Select("A")
    \/ Upsert("A")
    \/ Commit("A")
    \/ QueryFails("A")
    \/ Rollback("A")
    \/ RollbackFails("A")

Spec == Init /\ [][Next]_vars

\* the batches of two overlapping runs: one or two days out of the first day
\* read as 5.0 or as 6.0 and the second day
ConcChoices == {d \in SeqChoices : ParseDate(d.date).valid}

ConcBatches ==
    {[month |-> "Gennaio", days |-> <<d>>] : d \in ConcChoices} \cup
    {[month |-> "Gennaio", days |-> <<d, e>>] : d \in ConcChoices, e \in ConcChoices}

\* two scraper processes (overlapping scheduled runs), each calling
\* saveDailyHourlyData once on its own connection; no connection failure
NextConc ==
    \E c \in Clients :
        \/ \E b \in ConcBatches : Call(c, b)
        \/ Connect(c)
        \/ Begin(c)
        \/ Select(c)
        \/ Upsert(c)
        \/ Commit(c)
        \/ DeadlockDetected(c)
        \/ Rollback(c)

SpecConc == Init /\ [][NextConc]_vars

\* a table row with values in its first and its last hour cell
EdgeDay == [l \in {"00:00", "23:00"} |-> Num(10000)]

\* batches of one day under each of the calendar strings
DateBatches ==
    {[month |-> "Novembre", days |-> <<[date |-> s, hours |-> EdgeDay]>>] :
        s \in CalendarStrs \cup {"not-a-date"}}

\* the process runs in any of the time zones
InitDates ==
    /\ tz \in TimeZones
    /\ StoreEmpty
    /\ RunIdle
    /\ TextIdle
    /\ PoolIdle
    /\ SchedIdle

\* one process saving one day after the other, without failures
NextDates ==
    \/ \E b \in DateBatches : Call("A", b)
    \/ Settle("A")
    \/ Connect("A")
    \/ Begin("A")
    \/ Select("A")
    \/ Upsert("A")
    \/ Commit("A")

SpecDates == InitDates /\ [][NextDates]_vars

----------------------------------------------------------------------------
(* The pipeline run: main() of part_000, lines 418-489 *)

\* the phases in the order main() calls their functions: performLogin,
\* clickVerbraucher, clickFirstCurve, scrapeMonthlyActiveEnergy,
\* findLatestNonNullMonthAndClick, scrapeDailyHourlyUsage
PhaseOrder ==
    <<"Authenticate", "ReachListing", "ReachCurveView", "ExtractMonthly",
      "SelectDrillDownMonth", "ExtractDaily">>

Phases == {PhaseOrder[i] : i \in 1..Len(PhaseOrder)}

PhaseIndex(p) == CHOOSE i \in 1..Len(PhaseOrder) : PhaseOrder[i] = p

\* a run that goes back to the login after each phase
NextPhaseRetry(p) ==
    IF p = "ReachListing" THEN "Authenticate"
    ELSE IF PhaseIndex(p) = Len(PhaseOrder) THEN "complete"
    ELSE PhaseOrder[PhaseIndex(p) + 1]

\* the statement of main() that follows the call of phase p when it returns
NextPhase(p) ==
    IF PhaseIndex(p) = Len(PhaseOrder) THEN "complete"
    ELSE PhaseOrder[PhaseIndex(p) + 1]

MonthLabels == <<"Gennaio", "Febbraio", "Marzo", "Aprile", "Maggio", "Giugno">>

MonthValues == {NullNum, Num(0), Num(10000)}

\* what scrapeMonthlyActiveEnergy returns: the header labels in order and the
\* parsed value of each label
MonthlySeries ==
    UNION {{[months |-> SubSeq(MonthLabels, 1, n), parsed |-> f] :
               f \in [{MonthLabels[i] : i \in 1..n} -> MonthValues]} :
           n \in 0..MaxMonths}

\* a scan that takes 0 for a missing value: if (value)
RECURSIVE LatestNonNullTruthy(_, _)
LatestNonNullTruthy(md, i) ==
    IF i < 1 THEN 0
    ELSE IF md.parsed[md.months[i]] \notin {NullNum, Num(0)} THEN i
    ELSE LatestNonNullTruthy(md, i - 1)

\* a scan that takes the last column whatever its value
LatestNonNullLast(md, i) == IF i < 1 THEN 0 ELSE i

\* for (let i = months.length - 1; i >= 0; i--) ... break at the first value
\* that is neither null nor undefined; 0: none (lastNonNullIndex = -1)
RECURSIVE LatestNonNull(_, _)
LatestNonNull(md, i) ==
    IF i < 1 THEN 0
    ELSE IF md.parsed[md.months[i]] # NullNum THEN i
    ELSE LatestNonNull(md, i - 1)

\* an exception leaves the try block of main
Throw ==
    /\ phase' = "catch"
    /\ running' = FALSE

\* a phase function whose last wait has no timeout: it never returns to main
ReturnWaits(p) == UNCHANGED <<phase, running>>

\* the phase's function returns to main
Return(p) ==
    /\ phase' = NextPhase(p)
    /\ running' = FALSE

\* browser = await launchBrowser(); const page = await browser.newPage()
Launch ==
    /\ phase = "launch"
    /\ browserOpen' = TRUE
    /\ phase' = PhaseOrder[1]
    /\ UNCHANGED <<running, started, page, monthlyData, monthName, exitCode, log,
                   dailyData, written, storeVars, restVars>>

\* puppeteer.launch rejects (browser stays undefined), or newPage rejects
LaunchFails ==
    /\ phase = "launch"
    /\ \E launched \in BOOLEAN : browserOpen' = launched
    /\ phase' = "catch"
    /\ UNCHANGED <<running, started, page, monthlyData, monthName, exitCode, log,
                   dailyData, written, storeVars, restVars>>

\* main calls the function of phase p
StartPhase(p) ==
    /\ phase = p
    /\ ~running
    /\ running' = TRUE
    /\ started' = Append(started, p)
    /\ UNCHANGED <<phase, page, monthlyData, monthName, exitCode, browserOpen, log,
                   dailyData, written, storeVars, restVars>>

\* a login check that looks at the form only
LoginSuccessPanelOnly(changed, panel, login) == ~panel

\* const success = !loginPanelExists || (afterUrl !== beforeUrl &&
\* !afterUrl.includes('Login.tws'))
LoginSuccess(changed, panel, login) == ~panel \/ (changed /\ ~login)

\* performLogin settles: a required field missing within its timeout throws;
\* not success throws 'Login not confirmed as successful.'
LoginSettles ==
    /\ phase = "Authenticate" /\ running
    /\ \E fields, changed, panel, login \in BOOLEAN :
          /\ page' = IF fields
                     THEN [page EXCEPT !.urlChanged = changed,
                                       !.loginPanelExists = panel,
                                       !.urlHasLogin = login]
                     ELSE page
          /\ IF fields /\ LoginSuccess(changed, panel, login)
             THEN Return("Authenticate")
             ELSE Throw
    /\ UNCHANGED <<started, monthlyData, monthName, exitCode, browserOpen, log,
                   dailyData, written, storeVars, restVars>>

\* a warning whenever one of the two landmarks is missing
WarnsUnlessBoth(tab, tbl) == ~(tab /\ tbl)

\* if (!tabExists && !tableExists) console.warn(...)
Warns(tab, tbl) == ~tab /\ ~tbl

\* clickVerbraucher settles: the menu item missing after 25 s throws; after
\* the click the two landmarks are looked up once and only logged
ListingSettles ==
    /\ phase = "ReachListing" /\ running
    /\ \/ /\ Throw
          /\ UNCHANGED <<page, log>>
       \/ \E tab, tbl \in BOOLEAN :
             /\ page' = [page EXCEPT !.menuClicked = TRUE, !.tabExists = tab,
                                     !.tableExists = tbl]
             /\ log' = IF Warns(tab, tbl) THEN log \cup {"verbraucher-warn"} ELSE log
             /\ Return("ReachListing")
    /\ UNCHANGED <<started, monthlyData, monthName, exitCode, browserOpen,
                   dailyData, written, storeVars, restVars>>

\* a missing curve button as a fatal error
CurveMissingThrows == Throw

\* catch { console.warn(...); return; }: clickFirstCurve returns to main
CurveMissing == Return("ReachCurveView")

\* clickFirstCurve settles: a missing button is caught, warned about and the
\* function returns; otherwise the button is clicked (the click rejecting throws)
CurveSettles ==
    /\ phase = "ReachCurveView" /\ running
    /\ \/ /\ page' = [page EXCEPT !.curveButton = FALSE]
          /\ log' = log \cup {"curve-warn"}
          /\ CurveMissing
       \/ \E clickOk \in BOOLEAN :
             /\ page' = [page EXCEPT !.curveClicked = clickOk]
             /\ UNCHANGED log
             /\ IF clickOk THEN Return("ReachCurveView") ELSE Throw
    /\ UNCHANGED <<started, monthlyData, monthName, exitCode, browserOpen,
                   dailyData, written, storeVars, restVars>>

\* a missing grid handed on as an empty series
GridMissingEmpty ==
    /\ monthlyData' = NoMonthly
    /\ Return("ExtractMonthly")

\* .catch(() => { throw new Error('Active energy grid not found ...') })
GridMissing ==
    /\ UNCHANGED monthlyData
    /\ Throw

\* scrapeMonthlyActiveEnergy settles: no grid after 90 s throws
MonthlySettles ==
    /\ phase = "ExtractMonthly" /\ running
    /\ \/ /\ \E md \in MonthlySeries : monthlyData' = md
          /\ UNCHANGED page
          /\ Return("ExtractMonthly")
       \/ /\ page' = [page EXCEPT !.gridPresent = FALSE]
          /\ GridMissing
    /\ UNCHANGED <<started, monthName, exitCode, browserOpen, log, dailyData,
                   written, storeVars, restVars>>

\* findLatestNonNullMonthAndClick settles with false (no month, or the link was
\* not clicked) or with the month's label; page.evaluate rejecting throws.
\* if (monthName) decides whether scrapeDailyHourlyUsage is called.
SelectSettles ==
    /\ phase = "SelectDrillDownMonth" /\ running
    /\ LET i == LatestNonNull(monthlyData, Len(monthlyData.months))
           month == IF i = 0 THEN Null ELSE monthlyData.months[i]
           seen == [page EXCEPT !.lastNonNullIndex = i - 1,
                                !.lastNonNullMonth = month]
       IN \/ /\ i = 0
             /\ page' = seen
             /\ monthName' = Null
             /\ phase' = "complete" /\ running' = FALSE
          \/ /\ i # 0
             /\ \E clicked \in BOOLEAN :
                   /\ page' = [seen EXCEPT !.linkClicked = clicked]
                   /\ IF clicked
                      THEN /\ monthName' = month
                           /\ Return("SelectDrillDownMonth")
                      ELSE /\ monthName' = Null
                           /\ phase' = "complete" /\ running' = FALSE
          \/ /\ i # 0
             /\ page' = seen
             /\ UNCHANGED monthName
             /\ Throw
    /\ UNCHANGED <<started, monthlyData, exitCode, browserOpen, log, dailyData,
                   written, storeVars, restVars>>

DailyTables == {"none", "short", "rows"}

\* a scrape that makes up a day when it finds no table
DailyResultPlaceholder(tbl, n) ==
    IF tbl \in {"none", "short"} THEN [isNull |-> FALSE, days |-> 1]
    ELSE [isNull |-> FALSE, days |-> n]

\* scrapeDailyHourlyUsage: no table found by any strategy, or a table with
\* fewer than two rows, gives data.error and the function returns null;
\* otherwise the result holds the n rows that have a valid hourly value
DailyResult(tbl, n) ==
    IF tbl \in {"none", "short"} THEN NoDaily
    ELSE [isNull |-> FALSE, days |-> n]

\* if (dailyData && dailyData.days.length > 0)
ShouldWrite(d) == ~d.isNull /\ d.days > 0

\* scrapeDailyHourlyUsage settles inside the inner try of main.  A result is
\* written to the output file when it has a day (writeFileSync throwing is
\* caught by the inner catch); null or no day is logged.  A rejection of the
\* scrape is logged by the inner catch; only the screenshot of the inner
\* catch rejecting leaves the try block of main.
DailySettles ==
    /\ phase = "ExtractDaily" /\ running
    /\ \/ \E tbl \in DailyTables, n \in 0..MaxDays, writeOk \in BOOLEAN :
             LET d == DailyResult(tbl, n)
             IN /\ page' = [page EXCEPT !.dailyTable = tbl]
                /\ dailyData' = d
                /\ IF ShouldWrite(d)
                   THEN /\ written' = writeOk
                        /\ log' = IF writeOk THEN log ELSE log \cup {"daily-error"}
                   ELSE /\ written' = FALSE
                        /\ log' = log \cup {"no-daily-data"}
                /\ Return("ExtractDaily")
       \/ \E shotOk \in BOOLEAN :
             /\ log' = log \cup {"daily-error"}
             /\ UNCHANGED <<page, dailyData, written>>
             /\ IF shotOk THEN Return("ExtractDaily") ELSE Throw
    /\ UNCHANGED <<started, monthlyData, monthName, exitCode, browserOpen, storeVars, restVars>>

\* console.log('[main] Flow complete.')
Complete ==
    /\ phase = "complete"
    /\ phase' = "finally"
    /\ log' = log \cup {"flow-complete"}
    /\ UNCHANGED <<running, started, page, monthlyData, monthName, exitCode,
                   browserOpen, dailyData, written, storeVars, restVars>>

\* a catch block that logs the error and leaves the exit status alone
CatchKeepsStatus ==
    /\ phase = "catch"
    /\ phase' = "finally"
    /\ log' = log \cup {"flow-failed"}
    /\ UNCHANGED <<running, started, page, monthlyData, monthName, exitCode,
                   browserOpen, dailyData, written, storeVars, restVars>>

\* catch (e) { console.error('[error] Flow failed:', ...); process.exitCode = 1 }
Catch ==
    /\ phase = "catch"
    /\ exitCode' = 1
    /\ phase' = "finally"
    /\ log' = log \cup {"flow-failed"}
    /\ UNCHANGED <<running, started, page, monthlyData, monthName, browserOpen,
                   dailyData, written, storeVars, restVars>>

\* finally { if (browser) await browser.close() }
Finally ==
    /\ phase = "finally"
    /\ browserOpen' = FALSE
    /\ phase' = "exited"
    /\ UNCHANGED <<running, started, page, monthlyData, monthName, exitCode, log,
                   dailyData, written, storeVars, restVars>>

RunStart ==
    /\ phase = "launch"
    /\ running = FALSE
    /\ started = <<>>
    /\ page = NoPage
    /\ monthlyData = NoMonthly
    /\ monthName = Null
    /\ exitCode = 0
    /\ browserOpen = FALSE
    /\ log = {}
    /\ dailyData = NoDaily
    /\ written = FALSE

InitRun == StoreInit /\ RunStart /\ TextIdle /\ PoolIdle /\ SchedIdle

NextRun ==
    \/ Launch
    \/ LaunchFails
    \/ \E p \in Phases : StartPhase(p)
    \/ LoginSettles
    \/ ListingSettles
    \/ CurveSettles
    \/ MonthlySettles
    \/ SelectSettles
    \/ DailySettles
    \/ Complete
    \/ Catch
    \/ Finally

SpecRun == InitRun /\ [][NextRun]_vars

\* every awaited browser call returns or times out, so a run that can take a
\* step eventually takes one
SpecRunFair == InitRun /\ [][NextRun]_vars /\ WF_vars(NextRun)

----------------------------------------------------------------------------
(* The number normalizers: the parse loop of scrapeMonthlyActiveEnergy     *)
(* (part_000 191-203) and normalizeNumber of scrapeDailyHourlyUsage        *)
(* (part_000 367-376).  A number is <<[m |-> mantissa, e |-> decimals]>>,  *)
(* the decimal m / 10^e without trailing zero decimals.                    *)

TextChars == {"0", "1", "2", ".", ",", "a", "-"}

\* the cells the page may show: every short text and the texts "1.234,56",
\* "12.3", "abc", "N/A" and "0,00"
Cells ==
    UNION {[1..n -> TextChars] : n \in 0..MaxText} \cup
    {<<"1", ".", "2", "3", "4", ",", "5", "6">>, <<"1", "2", ".", "3">>,
     <<"a", "b", "c">>, <<"N", "/", "A">>, <<"0", ",", "0", "0">>}

RECURSIVE Dec(_, _)
Dec(m, e) == IF e > 0 /\ m % 10 = 0 THEN Dec(m \div 10, e - 1) ELSE [m |-> m, e |-> e]

\* str.replace(/\./g, '')
RemoveDots(cs) == SelectSeq(cs, LAMBDA ch : ch # ".")

\* str.replace(',', '.'): the first comma only
ReplaceFirstComma(cs) ==
    IF \E i \in 1..Len(cs) : cs[i] = ","
    THEN LET k == CHOOSE i \in 1..Len(cs) :
                     cs[i] = "," /\ \A j \in 1..(i - 1) : cs[j] # ","
         IN [cs EXCEPT ![k] = "."]
    ELSE cs

\* str.replace(/[^\d.]/g, '') and str.replace(/[^\d.-]/g, '')
KeepChars(cs, others) == SelectSeq(cs, LAMBDA ch : IsDigit(ch) \/ ch \in others)

\* the longest prefix of digits
RECURSIVE DigitPrefix(_)
DigitPrefix(cs) ==
    IF cs # <<>> /\ IsDigit(Head(cs)) THEN <<Head(cs)>> \o DigitPrefix(Tail(cs))
    ELSE <<>>

\* parseFloat of a text of digits, dots and minus signs: an optional sign,
\* digits, an optional dot with digits; what follows is ignored; NaN (<<>>)
\* when there is no digit at the start
ParseFloat(cs) ==
    LET neg == cs # <<>> /\ Head(cs) = "-"
        body == IF neg THEN Tail(cs) ELSE cs
        int == DigitPrefix(body)
        rest == SubSeq(body, Len(int) + 1, Len(body))
        frac == IF rest # <<>> /\ Head(rest) = "." THEN DigitPrefix(Tail(rest))
                ELSE <<>>
        m == ToNumber(int \o frac)
    IN IF int = <<>> /\ frac = <<>> THEN NullNum
       ELSE Num(Dec(IF neg THEN 0 - m ELSE m, Len(frac)))

\* a chain that ends with num ? num : null
NormalizeWithTruthy(raw, blanks, others) ==
    IF raw = <<>> \/ raw \in blanks THEN NullNum
    ELSE LET normalized == KeepChars(ReplaceFirstComma(RemoveDots(raw)), others)
             num == IF normalized = <<>> THEN NullNum ELSE ParseFloat(normalized)
         IN IF num = Num(Dec(0, 0)) THEN NullNum ELSE num

\* the chain of both normalizers: a blank cell is null; dots are removed, the
\* first comma becomes a dot, other characters are dropped;
\* normalized ? parseFloat(normalized) : null; Number.isFinite(num) ? num : null
NormalizeWith(raw, blanks, others) ==
    IF raw = <<>> \/ raw \in blanks THEN NullNum
    ELSE LET normalized == KeepChars(ReplaceFirstComma(RemoveDots(raw)), others)
         IN IF normalized = <<>> THEN NullNum ELSE ParseFloat(normalized)

\* scrapeMonthlyActiveEnergy: if (!raw) null; keeps digits and dots
ParseMonthly(raw) == NormalizeWith(raw, {}, {"."})

\* normalizeNumber: '', '-' and 'N/A' are null; keeps digits, dots and minus
NormalizeNumber(raw) ==
    NormalizeWith(raw, {<<"-">>, <<"N", "/", "A">>}, {".", "-"})

\* a cell of the monthly grid is parsed
MonthlyCell(raw) ==
    /\ parser = "none"
    /\ cell' = raw
    /\ parser' = "monthly"
    /\ value' = ParseMonthly(raw)
    /\ UNCHANGED <<storeVars, runVars, rowVars, poolVars, schedVars>>

\* a cell of the hourly table is normalized
DailyCell(raw) ==
    /\ parser = "none"
    /\ cell' = raw
    /\ parser' = "daily"
    /\ value' = NormalizeNumber(raw)
    /\ UNCHANGED <<storeVars, runVars, rowVars, poolVars, schedVars>>

NextText ==
    \/ \E raw \in Cells : MonthlyCell(raw)
    \/ \E raw \in Cells : DailyCell(raw)

SpecText == Init /\ [][NextText]_vars

----------------------------------------------------------------------------
(* Rows of the hourly table (scrapeDailyHourlyUsage) *)

MaxCells == 2

\* texts of a value cell: "", "1,0", "0,0004" and "-"
RowCells ==
    {<<>>, <<"1", ",", "0">>, <<"0", ",", "0", "0", "0", "4">>, <<"-">>}

Fill(c, n) == [i \in 1..n |-> c]

\* dayData.hourlyValues: up to MaxCells cells of any text, then none or almost
\* a day of equal cells, so that rows are shorter than, as long as and longer
\* than the 24 hours
HourlyRows ==
    {p \o Fill(f, k) :
        p \in UNION {[1..n -> RowCells] : n \in 0..MaxCells},
        f \in RowCells \ {<<"-">>},
        k \in {0, HOURS_PER_DAY - 2, HOURS_PER_DAY - 1}}

RECURSIVE Pow10(_)
Pow10(n) == IF n = 0 THEN 1 ELSE 10 * Pow10(n - 1)

\* toFixed(3) that cuts the further decimals off
ToFixed3Truncating(d) ==
    IF d.e <= 3 THEN d ELSE Dec(d.m \div Pow10(d.e - 3), 3)

\* parseFloat(totalKwh.toFixed(3)) of a total that is not negative: the
\* nearest number with three decimals. The cells above never sum to a total
\* half way between two such numbers, where the binary value would decide.
ToFixed3(d) ==
    IF d.e <= 3 THEN d
    ELSE LET q == Pow10(d.e - 3) IN Dec((d.m + q \div 2) \div q, 3)

\* the decimals of the values of the first n cells: the largest number of them
Decimals(hourlyValues, n) ==
    LET es == {NormalizeNumber(hourlyValues[i])[1].e :
                  i \in {j \in 1..n : NormalizeNumber(hourlyValues[j]) # NullNum}}
    IN IF es = {} THEN 0 ELSE CHOOSE e \in es : \A o \in es : o <= e

\* the loop over h < Math.min(24, hourlyValues.length) with
\* if (value !== null) totalKwh += value: totalKwh after the first n cells,
\* in units of 10^-e
RECURSIVE TotalUnits(_, _, _)
TotalUnits(hourlyValues, n, e) ==
    IF n = 0 THEN 0
    ELSE LET v == NormalizeNumber(hourlyValues[n])
         IN TotalUnits(hourlyValues, n - 1, e)
            + (IF v = NullNum THEN 0 ELSE v[1].m * Pow10(e - v[1].e))

\* totalKwh after the loop
TotalKwh(hourlyValues, n) ==
    LET e == Decimals(hourlyValues, n)
    IN Dec(TotalUnits(hourlyValues, n, e), e)

\* one row of data.days is processed: hours gets a key for each of the first
\* Math.min(24, length) cells, and the day is pushed when a value was valid
ProcessDay(hourlyValues) ==
    /\ ~dayReading.done
    /\ row' = hourlyValues
    /\ LET n == IF Len(hourlyValues) < 24 THEN Len(hourlyValues) ELSE 24
           hours == [l \in {HourLabel(h) : h \in 0..(n - 1)} |->
                        NormalizeNumber(hourlyValues[
                            CHOOSE i \in 1..n : HourLabel(i - 1) = l])]
           validValues ==
               Cardinality({i \in 1..n : NormalizeNumber(hourlyValues[i]) # NullNum})
       IN dayReading' = [done |-> TRUE,
                  pushed |-> validValues > 0,
                  hours |-> hours,
                  total_kwh |-> ToFixed3(TotalKwh(hourlyValues, n))]
    /\ UNCHANGED <<storeVars, runVars, textVars, poolVars, schedVars, grid, monthly,
                   tables, chosen>>

NextDaily == \E hourlyValues \in HourlyRows : ProcessDay(hourlyValues)

SpecDaily == Init /\ [][NextDaily]_vars

----------------------------------------------------------------------------
(* The monthly grid (scrapeMonthlyActiveEnergy's page.evaluate) *)

\* header texts of a column
GridLabels == {"Gennaio", "Febbraio"}

\* the second row's cell of a column: no link, or a link with its text
NoLink == "no link"
LinkTexts == {"", "10", "20"}

\* the grids the page may show: up to MaxMonths columns
Grids ==
    UNION {[1..n -> [label : GridLabels, link : LinkTexts \cup {NoLink}]] :
              n \in 0..MaxMonths}

\* headerCells.map(th => th.innerText.trim())
MonthNames(g) == [i \in 1..Len(g) |-> g[i].label]

\* anchorNodes.map(a => a.innerText...): the texts of the links, in order
RECURSIVE RawValues(_)
RawValues(g) ==
    IF g = <<>> THEN <<>>
    ELSE (IF Head(g).link = NoLink THEN <<>> ELSE <<Head(g).link>>) \o RawValues(Tail(g))

\* monthNames.forEach((m, i) => { map[m] = rawValues[i] || '' }): the last
\* header of a text decides its entry
MonthMap(monthNames, rawValues) ==
    [m \in {monthNames[i] : i \in 1..Len(monthNames)} |->
        LET i == CHOOSE k \in 1..Len(monthNames) :
                     /\ monthNames[k] = m
                     /\ \A j \in (k + 1)..Len(monthNames) : monthNames[j] # m
        IN IF i <= Len(rawValues) THEN rawValues[i] ELSE ""]

\* the grid is read: { raw: data.map, months: data.months }
ReadGrid(g) ==
    /\ ~monthly.done
    /\ grid' = g
    /\ monthly' = [done |-> TRUE,
                   months |-> MonthNames(g),
                   raw |-> MonthMap(MonthNames(g), RawValues(g))]
    /\ UNCHANGED <<storeVars, runVars, textVars, poolVars, schedVars, row, dayReading,
                   tables, chosen>>

NextGrid == \E g \in Grids : ReadGrid(g)

SpecGrid == Init /\ [][NextGrid]_vars

----------------------------------------------------------------------------
(* The hourly table of the daily page (scrapeDailyHourlyUsage's strategies) *)

MaxTables == 2

\* the documents the page may show: up to MaxTables tables, each with the
\* searched text its id contains, the th cells of its first row and its rows
Documents ==
    UNION {[1..n -> [id : {"none", "gvDettaglio", "Consumi", "Giornalier"},
                     ths : {0, HOURS_PER_DAY - 1, HOURS_PER_DAY},
                     rows : {1, 2}]] : n \in 0..MaxTables}

\* the first index of a set of indexes, 0 for none: what querySelector and the
\* loop with break return
FirstOf(is) == IF is = {} THEN 0 ELSE CHOOSE i \in is : \A j \in is : i <= j

\* document.querySelector('table[id*="..."]')
QueryId(doc, id) == FirstOf({i \in 1..Len(doc) : doc[i].id = id})

\* the column count tried before the ids
PickTableWideFirst(doc) ==
    IF FirstOf({i \in 1..Len(doc) : doc[i].ths >= 24}) # 0
    THEN FirstOf({i \in 1..Len(doc) : doc[i].ths >= 24})
    ELSE IF QueryId(doc, "gvDettaglio") # 0 THEN QueryId(doc, "gvDettaglio")
    ELSE IF QueryId(doc, "Consumi") # 0 THEN QueryId(doc, "Consumi")
    ELSE QueryId(doc, "Giornalier")

\* strategies 1 to 3 in order, each tried if (!table); strategy 3 is the first
\* table whose first row has at least 24 th cells; 0: no table
PickTable(doc) ==
    IF QueryId(doc, "gvDettaglio") # 0 THEN QueryId(doc, "gvDettaglio")
    ELSE IF QueryId(doc, "Consumi") # 0 THEN QueryId(doc, "Consumi")
    ELSE IF QueryId(doc, "Giornalier") # 0 THEN QueryId(doc, "Giornalier")
    ELSE FirstOf({i \in 1..Len(doc) : doc[i].ths >= 24})

\* page.evaluate of scrapeDailyHourlyUsage up to the rows, on any document:
\* data.error when no table was found or the table has fewer than two rows
FindTable ==
    /\ ~chosen.done
    /\ \E doc \in Documents :
          /\ tables' = doc
          /\ LET t == PickTable(doc)
             IN chosen' =
                   [done |-> TRUE,
                    index |-> t,
                    error |-> IF t = 0 THEN "No suitable table found"
                              ELSE IF doc[t].rows < 2
                                   THEN "Table has insufficient rows"
                              ELSE "none"]
    /\ UNCHANGED <<storeVars, runVars, textVars, poolVars, schedVars, row,
                   dayReading, grid, monthly>>

SpecTables == Init /\ [][FindTable]_vars

----------------------------------------------------------------------------
(* The pool and the schema (getPool, initializeSchema, closePool) *)

MaxOps == 3

\* what can go wrong in a call of initializeSchema
Faults == {"none", "connect", "hypertable"}

\* the error of the create_hypertable query, if any: the function does not
\* exist when TimescaleDB is not installed
HypertableError(fault) ==
    IF fault = "hypertable" THEN "other"
    ELSE IF dbEnv.timescale THEN "none"
    ELSE "does not exist"

\* a catch handler that rethrows every error
SwallowsNothing(message) == FALSE

\* .catch: err.message.includes('function create_hypertable') ||
\* err.message.includes('does not exist')
Swallows(message) == message = "does not exist"

\* no saveDailyHourlyData call is in progress
AllIdle == \A c \in Clients : pc[c] = "idle"

\* initializeSchema(): the whole call
InitializeSchema(fault) ==
    /\ AllIdle
    /\ ops < MaxOps
    /\ ops' = ops + 1
    /\ IF GetPoolThrows
       THEN /\ poolOut' = [op |-> "initializeSchema", result |-> "threw",
                           fault |-> "credentials", before |-> schema,
                           poolBefore |-> pool,
                           acquired |-> 0, released |-> 0]
            /\ UNCHANGED <<pool, poolCount, ended, schema>>
       ELSE /\ GetPool
            /\ IF fault = "connect"
               THEN /\ poolOut' = [op |-> "initializeSchema", result |-> "threw",
                                   fault |-> fault, before |-> schema,
                           poolBefore |-> pool,
                           acquired |-> 0, released |-> 0]
                    /\ UNCHANGED schema
               ELSE LET message == HypertableError(fault)
                        goesOn == message = "none" \/ Swallows(message)
                    IN /\ schema' =
                              [table |-> TRUE,
                               hypertable |-> schema.hypertable \/ message = "none",
                               index |-> schema.index \/ goesOn]
                       /\ poolOut' =
                              [op |-> "initializeSchema",
                               result |-> IF goesOn THEN "returned" ELSE "threw",
                               fault |-> fault, before |-> schema,
                           poolBefore |-> pool,
                           acquired |-> 1, released |-> Releases(1)]
    /\ UNCHANGED <<storeVars, runVars, textVars, rowVars, schedVars, dbEnv>>

\* closePool that leaves the variable as it is
AfterEndKeeps(p) == p

\* pool = null
AfterEnd(p) == 0

\* closePool(): the whole call; end() of a pool that was ended already rejects
ClosePool ==
    /\ AllIdle
    /\ ops < MaxOps
    /\ ops' = ops + 1
    /\ IF pool # 0
       THEN /\ ended' = [ended EXCEPT ![pool] = @ + 1]
            /\ IF ended[pool] > 0
               THEN /\ UNCHANGED pool
                    /\ poolOut' = [op |-> "closePool", result |-> "threw",
                                   fault |-> "ended", before |-> schema,
                           poolBefore |-> pool,
                           acquired |-> 0, released |-> 0]
               ELSE /\ pool' = AfterEnd(pool)
                    /\ poolOut' = [op |-> "closePool", result |-> "returned",
                                   fault |-> "none", before |-> schema,
                           poolBefore |-> pool,
                           acquired |-> 0, released |-> 0]
       ELSE /\ poolOut' = [op |-> "closePool", result |-> "returned",
                           fault |-> "none", before |-> schema,
                           poolBefore |-> pool,
                           acquired |-> 0, released |-> 0]
            /\ UNCHANGED <<pool, ended>>
    /\ UNCHANGED <<storeVars, runVars, textVars, rowVars, schedVars, poolCount,
                   schema, dbEnv>>

\* an hours mapping with keys that are no hour labels next to one that is
OddDay == [l \in {"23:00", "24:00", "07:30"} |-> Num(12000)]

\* batches of one day: one reading at 01:00, or the odd keys
PoolBatches ==
    {[month |-> "Gennaio", days |-> <<[date |-> "01/01/2025", hours |-> h]>>] :
        h \in {SlotDay(10000), OddDay}}

\* the credentials may be missing and TimescaleDB may not be installed
InitPool ==
    /\ StoreInit
    /\ RunIdle
    /\ TextIdle
    /\ SchedIdle
    /\ PoolStart
    /\ dbEnv \in [credentials : BOOLEAN, timescale : BOOLEAN]

\* one process calling the three functions of the module one after the other
NextPool ==
    \/ \E fault \in Faults : InitializeSchema(fault)
    \/ ClosePool
    \/ \E b \in PoolBatches : Call("A", b)
    \/ Settle("A")
    \/ Connect("A")
    \/ ConnectFails("A")
    \/ Begin("A")
    \/ Select("A")
    \/ Upsert("A")
    \/ Commit("A")
    \/ QueryFails("A")
    \/ Rollback("A")
    \/ RollbackFails("A")

SpecPool == InitPool /\ [][NextPool]_vars

----------------------------------------------------------------------------
(* The scheduler (scheduler.js 1-54) *)

MaxRuns == 3

\* the children that were spawned and have neither closed nor failed to start
Running == {i \in 1..Len(children) : children[i].state = "running"}

\* runScraper(): spawn('node', ['src/index.js', '--db'], ...), whatever the
\* earlier children do
RunScraper ==
    /\ Len(children) < MaxRuns
    /\ children' = Append(children, [state |-> "running", code |-> 0])

\* the scheduler starts: cron.schedule(...) and, if RUN_ON_START is 'true',
\* runScraper() at once
Boot(runOnStart) ==
    /\ ~sched.up /\ ~sched.exited
    /\ sched' = [up |-> TRUE, exited |-> FALSE, runOnStart |-> runOnStart]
    /\ IF runOnStart THEN RunScraper ELSE UNCHANGED children
    /\ UNCHANGED <<storeVars, runVars, textVars, rowVars, poolVars>>

\* the cron expression matches: () => { runScraper() }
CronFires ==
    /\ sched.up
    /\ RunScraper
    /\ UNCHANGED <<storeVars, runVars, textVars, rowVars, poolVars, sched>>

\* scraper.on('close', (code) => ...): child i has ended
ChildClose(i, code) ==
    /\ i \in Running
    /\ children' = [children EXCEPT ![i] = [state |-> "closed", code |-> code]]
    /\ UNCHANGED <<storeVars, runVars, textVars, rowVars, poolVars, sched>>

\* scraper.on('error', ...): child i could not be started
ChildError(i) ==
    /\ i \in Running
    /\ children' = [children EXCEPT ![i] = [state |-> "failed", code |-> 0]]
    /\ UNCHANGED <<storeVars, runVars, textVars, rowVars, poolVars, sched>>

\* SIGINT or SIGTERM: process.exit(0); the jobs stop, the children are not
\* signalled by this code
Shutdown ==
    /\ sched.up
    /\ sched' = [sched EXCEPT !.up = FALSE, !.exited = TRUE]
    /\ UNCHANGED <<storeVars, runVars, textVars, rowVars, poolVars, children>>

NextSched ==
    \/ \E runOnStart \in BOOLEAN : Boot(runOnStart)
    \/ CronFires
    \/ \E i \in 1..MaxRuns, code \in {0, 1} : ChildClose(i, code)
    \/ \E i \in 1..MaxRuns : ChildError(i)
    \/ Shutdown

SpecSched == Init /\ [][NextSched]_vars

----------------------------------------------------------------------------
(* Vocabulary of the properties *)

\* the (day, hour) pairs of a batch with a non-null value and a parsable date
Readings(b) ==
    {rd \in (1..Len(b.days)) \X (0..(HOURS_PER_DAY - 1)) :
        /\ ParseDate(b.days[rd[1]].date).valid
        /\ HourValue(b.days[rd[1]], rd[2]) # NullNum}

ReadingKey(b, rd) ==
    <<RecordTimestamp(ParseDate(b.days[rd[1]].date), rd[2]), rd[2]>>

ReadingKwh(b, rd) == HourValue(b.days[rd[1]], rd[2])[1]

RowKey(r) == <<r.timestamp, r.hour>>

Keys(rows) == {RowKey(r) : r \in rows}

RowOf(rows, k) == CHOOSE r \in rows : RowKey(r) = k

\* the readings of the batch that address key k
ReadingsOf(b, k) == {rd \in Readings(b) : ReadingKey(b, rd) = k}

\* the state in which a call has committed and returned
Done(c) == pc[c] = "returned"

----------------------------------------------------------------------------
(* C1 - monotonic overwrite with epsilon *)

\* C1: when a row exists for (timestamp, hour) with value e and the batch
\* reports one non-null value v for that key, the committed row holds v if
\* v - e > 0.001 and still holds e otherwise; e = 5.0 with v = 5.0005 or
\* v = 4.0 keeps 5.0, v = 6.0 stores 6.0.
C1_OverwriteIffAboveEpsilon ==
    \A c \in Clients : Done(c) =>
        \A k \in Keys(tableBefore[c]) :
            \A rd \in ReadingsOf(batch[c], k) :
                ReadingsOf(batch[c], k) = {rd} =>
                    LET e == RowOf(tableBefore[c], k).kwh
                        v == ReadingKwh(batch[c], rd)
                        now == RowOf(table, k).kwh
                    IN /\ now = IF v - e > Epsilon THEN v ELSE e
                       /\ (e = 10000 /\ v \in {10001, 8000}) => now = 10000
                       /\ (e = 10000 /\ v = 12000) => now = 12000

C1_Witness ==
    /\ Done("A")
    /\ \E k \in Keys(tableBefore["A"]) :
          /\ RowOf(tableBefore["A"], k).kwh = 10000
          /\ \E rd \in ReadingsOf(batch["A"], k) : ReadingKwh(batch["A"], rd) = 12000
          /\ RowOf(table, k).kwh = 12000

----------------------------------------------------------------------------
(* C2 - rows are never deleted and never decrease *)

\* C2: in every step of every sequence of calls, each committed row stays in
\* the table with a kwh that is not lower, and a kwh that changed is a value
\* the running batch reports for that key, strictly greater than the old one.
C2_NeverDeletedNeverDecreases ==
    [][\A r \in table :
          /\ RowKey(r) \in Keys(table')
          /\ RowOf(table', RowKey(r)).kwh >= r.kwh
          /\ RowOf(table', RowKey(r)).kwh # r.kwh =>
                \E c \in Clients : \E rd \in ReadingsOf(batch[c], RowKey(r)) :
                    /\ ReadingKwh(batch[c], rd) = RowOf(table', RowKey(r)).kwh
                    /\ ReadingKwh(batch[c], rd) > r.kwh]_vars

C2_Witness ==
    /\ Done("A")
    /\ \E r \in tableBefore["A"] : RowOf(table, RowKey(r)).kwh > r.kwh

----------------------------------------------------------------------------
(* C3 - all or nothing *)

\* C3: the committed table changes only in the COMMIT step of a call that
\* returns; and when a statement has failed after rows were written, the call
\* ends with the table as it was before the call and throws the error of the
\* failed statement.
C3_AllOrNothingOriginalError ==
    [][\A c \in Clients :
          /\ (pc[c] = "rollback" /\ writes[c] # {} /\ pc'[c] = "threw") =>
                /\ table' = tableBefore[c]
                /\ writes'[c] = {}
                /\ outcome'[c] = Threw(err[c])
          /\ (pc[c] # "idle" /\ table' # table) =>
                (pc[c] = "commit" /\ pc'[c] = "returned")]_vars

\* the part of C3 about the table alone: a call that throws leaves the table as
\* it was, and a call that returns has applied every reading of the batch
C3_TableAllOrNothing ==
    \A c \in Clients :
        /\ pc[c] \in {"rollback", "threw"} => table = tableBefore[c]
        /\ Done(c) => \A rd \in Readings(batch[c]) :
              /\ ReadingKey(batch[c], rd) \in Keys(table)
              /\ ReadingKwh(batch[c], rd)
                   - RowOf(table, ReadingKey(batch[c], rd)).kwh <= Epsilon

----------------------------------------------------------------------------
(* C4 - idempotence on the stored state *)

NoDuplicateRow(rows) ==
    \A r1, r2 \in rows : RowKey(r1) = RowKey(r2) => r1 = r2

\* C4: when a batch that has just been committed is applied a second time, the
\* table after the second application equals the table after the first (every
\* column of every row) and holds no two rows of one key.
C4_SecondApplicationChangesNothing ==
    \A c \in Clients :
        (Done(c) /\ repeated[c]) => (table = tableBefore[c] /\ NoDuplicateRow(table))

\* a re-applied batch of two days with the same date and different values
C4_Witness ==
    /\ Done("A") /\ repeated["A"]
    /\ Len(batch["A"].days) = 2
    /\ batch["A"].days[1].date = batch["A"].days[2].date
    /\ batch["A"].days[1].hours # batch["A"].days[2].hours
    /\ table # {}

----------------------------------------------------------------------------
(* C5 - return value of the second application *)

\* C5 as stated: the second application of a batch returns inserted = N, the
\* number of (day, hour) pairs with a non-null value and a parsable date, and
\* updated = 0.
C5_SecondReturnsInsertedN ==
    \A c \in Clients :
        (Done(c) /\ repeated[c]) =>
            outcome[c] = Returned(Cardinality(Readings(batch[c])), 0)

\* C5 amended: the second application of a batch returns inserted = 0 and
\* updated = 0.
C5_SecondReturnsZero ==
    \A c \in Clients :
        (Done(c) /\ repeated[c]) => outcome[c] = Returned(0, 0)

C5_Witness ==
    /\ Done("A") /\ repeated["A"]
    /\ Cardinality(Readings(batch["A"])) > 0
    /\ outcome["A"] = Returned(0, 0)

----------------------------------------------------------------------------
(* C7 - a day with an unparsable date is skipped, the others are applied *)

BadDays(b) == {i \in 1..Len(b.days) : ~ParseDate(b.days[i].date).valid}

\* the rows of the days of b with a parsable date, were each applied alone
GoodKeys(b) == {ReadingKey(b, rd) : rd \in Readings(b)}

\* C7: a call whose statements all succeed returns normally whatever the dates
\* are; no row stems from a day with an unparsable date and such a day is not
\* counted; every reading of every other day, before or after it, is applied:
\* its row is present and not lower than the reading by more than epsilon.
C7_BadDateSkippedOthersApplied ==
    \A c \in Clients :
        /\ pc[c] = "threw" => outcome[c].error \in {"connect", "begin", "select",
                                                   "upsert", "commit", "rollback"}
        /\ (Done(c) /\ BadDays(batch[c]) # {}) =>
              /\ \A r \in table : \A i \in BadDays(batch[c]) :
                    r.source_date = batch[c].days[i].date => r \in tableBefore[c]
              /\ Keys(table) = Keys(tableBefore[c]) \cup GoodKeys(batch[c])
              /\ outcome[c].insertedCount + outcome[c].updatedCount
                    <= Cardinality(Readings(batch[c]))
              /\ \A rd \in Readings(batch[c]) :
                    ReadingKwh(batch[c], rd)
                      - RowOf(table, ReadingKey(batch[c], rd)).kwh <= Epsilon

\* a day with an unparsable date first, then a day that inserts a row
C7_Witness ==
    /\ Done("A")
    /\ Len(batch["A"].days) = 2
    /\ BadDays(batch["A"]) = {1}
    /\ tableBefore["A"] = {}
    /\ Cardinality(table) = 1
    /\ outcome["A"] = Returned(1, 0)

----------------------------------------------------------------------------
(* C8 - a reading that does not exceed the row leaves the row alone *)

\* the readings of b that find a row in rows and do not exceed it by more than
\* epsilon
NotExceeding(b, rows) ==
    {rd \in Readings(b) :
        /\ ReadingKey(b, rd) \in Keys(rows)
        /\ ReadingKwh(b, rd) - RowOf(rows, ReadingKey(b, rd)).kwh <= Epsilon}

\* C8: a row that existed before the call and that no reading of the batch
\* exceeds by more than 0.001 is, after the call, the same row in every column
\* (kwh, month_name, source_date, created_at, updated_at), and the readings
\* that do not exceed their row are counted neither as inserted nor as updated.
C8_NotExceedingLeavesRowUntouched ==
    \A c \in Clients : Done(c) =>
        /\ \A r \in tableBefore[c] :
              (\A rd \in ReadingsOf(batch[c], RowKey(r)) :
                    ReadingKwh(batch[c], rd) - r.kwh <= Epsilon) => r \in table
        /\ outcome[c].insertedCount + outcome[c].updatedCount
              <= Cardinality(Readings(batch[c]) \ NotExceeding(batch[c], tableBefore[c]))

\* a batch of another month reports 5.0005 for a row of 5.0
C8_Witness ==
    /\ Done("A")
    /\ \E r \in tableBefore["A"] :
          /\ r.kwh = 10000
          /\ r.month_name # batch["A"].month
          /\ \E rd \in ReadingsOf(batch["A"], RowKey(r)) :
                ReadingKwh(batch["A"], rd) = 10001
          /\ r \in table
    /\ outcome["A"] = Returned(0, 0)

----------------------------------------------------------------------------
(* C9 - rows created and the counters *)

DistinctParsableDates(b) ==
    /\ BadDays(b) = {}
    /\ \A i, j \in 1..Len(b.days) : b.days[i].date = b.days[j].date => i = j

\* C9: for a batch whose days have pairwise distinct parsable dates, the rows
\* created are exactly those of the readings that had no row before, inserted is
\* their number and updated is the number of earlier rows whose kwh changed; a
\* null or absent slot creates and modifies nothing; one day with 24 non-null
\* hours on an empty table gives 24 rows, one per hour 0..23, inserted = 24 and
\* updated = 0.
C9_CreatedRowsAndCounts ==
    \A c \in Clients : (Done(c) /\ DistinctParsableDates(batch[c])) =>
        LET created == {r \in table : RowKey(r) \notin Keys(tableBefore[c])}
            changed == {r \in tableBefore[c] : RowOf(table, RowKey(r)).kwh # r.kwh}
        IN /\ Keys(created) = GoodKeys(batch[c]) \ Keys(tableBefore[c])
           /\ \A r \in table : RowKey(r) \notin GoodKeys(batch[c]) => r \in tableBefore[c]
           /\ outcome[c].insertedCount = Cardinality(created)
           /\ outcome[c].updatedCount = Cardinality(changed)
           /\ (batch[c] = FullBatch /\ tableBefore[c] = {}) =>
                 /\ Cardinality(table) = 24
                 /\ {r.hour : r \in table} = 0..23
                 /\ outcome[c] = Returned(24, 0)

C9_Witness ==
    /\ Done("A")
    /\ batch["A"] = FullBatch
    /\ tableBefore["A"] = {}
    /\ Cardinality(table) = 24
    /\ outcome["A"] = Returned(24, 0)

----------------------------------------------------------------------------
(* C6 - two overlapping transactions *)

\* C6: when the transactions of two overlapping runs interleave, no statement
\* of either fails, no key has two rows, and the committed kwh of a key never
\* becomes lower than a value committed before; after reports of 6.0 and 5.0
\* for a new key the table holds 6.0.
C6_OverlapOnlyRedundantWork ==
    [][/\ \A c \in Clients : pc'[c] # "rollback"
       /\ NoDuplicateRow(table')
       /\ \A r \in table :
             /\ RowKey(r) \in Keys(table')
             /\ RowOf(table', RowKey(r)).kwh >= r.kwh]_vars

----------------------------------------------------------------------------
(* C10 - the phases of a run *)

IsPrefix(q, full) == Len(q) <= Len(full) /\ q = SubSeq(full, 1, Len(q))

\* C10: the phases start in the fixed order, each at most once and none again:
\* a step that starts a phase appends the phase that follows the last started
\* one, and it is taken only when the phase before has settled and no fatal
\* error has been raised (main is not in its catch or finally block).
C10_PhasesInOrderOnce ==
    [][started' # started =>
          /\ \E p \in Phases : started' = Append(started, p)
          /\ IsPrefix(started', PhaseOrder)
          /\ ~running
          /\ exitCode = 0
          /\ phase \notin {"catch", "finally", "exited"}]_vars

C10_Witness ==
    /\ phase = "exited"
    /\ started = PhaseOrder
    /\ exitCode = 0

----------------------------------------------------------------------------
(* C11 .. C19 - what a run does with what it observes *)

StartedSet == {started[i] : i \in 1..Len(started)}

\* the function of phase p was called and has settled
Settled(p) == p \in StartedSet /\ ~(running /\ phase = p)

Aborted == phase \in {"catch", "finally", "exited"} /\ (phase # "catch" => exitCode = 1)

Succeeding == phase \in {"complete", "finally", "exited"} /\ exitCode = 0

LoginSucceeded == Settled("Authenticate") /\ (phase = "ReachListing" \/ Len(started) > 1)

LoginFailed == Settled("Authenticate") /\ Len(started) = 1 /\ phase # "ReachListing"

\* C11 as stated: Authenticate reports success only when the URL changed, the
\* login form is gone and the URL is not the login endpoint, all three, and
\* fails in every other combination.
C11_SuccessOnlyWhenAllThree ==
    /\ LoginSucceeded =>
          page.urlChanged /\ ~page.loginPanelExists /\ ~page.urlHasLogin
    /\ LoginFailed =>
          ~(page.urlChanged /\ ~page.loginPanelExists /\ ~page.urlHasLogin)

\* C11 amended: Authenticate reports success exactly when the login form is
\* gone, or the URL changed and is not the login endpoint; in every other
\* combination performLogin throws.
C11_SuccessByFormOrNavigation ==
    /\ LoginSucceeded =>
          (~page.loginPanelExists \/ (page.urlChanged /\ ~page.urlHasLogin))
    /\ LoginFailed =>
          ~(~page.loginPanelExists \/ (page.urlChanged /\ ~page.urlHasLogin))

C11_Witness ==
    /\ LoginSucceeded
    /\ page.loginPanelExists /\ page.urlChanged /\ ~page.urlHasLogin

C13_GridAbsentIsFatal ==
    ~page.gridPresent =>
        /\ Aborted
        /\ StartedSet \cap {"SelectDrillDownMonth", "ExtractDaily"} = {}
        /\ ~page.linkClicked
        /\ ~written

C13_Witness ==
    /\ ~page.gridPresent
    /\ page.curveClicked
    /\ phase = "exited"
    /\ exitCode = 1

AllNull(md) == \A i \in 1..Len(md.months) : md.parsed[md.months[i]] = NullNum

\* C14: when no month of the series has a non-null value, no month link is
\* clicked, ExtractDaily is never entered, no daily output is produced and
\* the run completes with a success status.
C14_NoMonthShortCircuits ==
    (Settled("SelectDrillDownMonth") /\ AllNull(monthlyData)) =>
        /\ ~page.linkClicked
        /\ "ExtractDaily" \notin StartedSet
        /\ dailyData = NoDaily
        /\ ~written
        /\ Succeeding

C14_Witness ==
    /\ Settled("SelectDrillDownMonth")
    /\ AllNull(monthlyData)
    /\ Len(monthlyData.months) = 2
    /\ phase = "exited"
    /\ exitCode = 0

\* C15: once ExtractMonthly has succeeded nothing aborts the run: it does not
\* enter the catch block of main and the exit status stays zero.
C15_NoAbortAfterMonthly ==
    "SelectDrillDownMonth" \in StartedSet => (phase # "catch" /\ exitCode = 0)

\* C16: when scrapeDailyHourlyUsage finds no qualifying table it returns null
\* without an exception: the inner catch does not run, nothing is written, the
\* "no daily data" message is logged and the run ends with a success status.
C16_NoTableIsNoDailyData ==
    page.dailyTable \in {"none", "short"} =>
        /\ dailyData = NoDaily
        /\ ~written
        /\ "daily-error" \notin log
        /\ "no-daily-data" \in log
        /\ Succeeding

C16_Witness ==
    /\ page.dailyTable = "none"
    /\ page.linkClicked
    /\ phase = "exited"
    /\ exitCode = 0

HandedOver == phase = "ReachCurveView" \/ "ReachCurveView" \in StartedSet

SeriesOf(vals) ==
    [months |-> SubSeq(MonthLabels, 1, Len(vals)),
     parsed |-> [m \in {MonthLabels[i] : i \in 1..Len(vals)} |->
                    vals[CHOOSE i \in 1..Len(vals) : MonthLabels[i] = m]]]

\* C19: the scan returns the label and the (0-based) index of the entry with
\* the greatest index whose value is non-null, 0.0 counts as a value, and it
\* returns none (index -1) exactly when every entry is null;
\* [5.0, null, null] gives (Gennaio, 0) and [null, 0.0] gives (Febbraio, 1).
C19_LatestNonNullEntry ==
    Settled("SelectDrillDownMonth") =>
        LET md == monthlyData
            idx == page.lastNonNullIndex
        IN /\ idx = -1 <=> AllNull(md)
           /\ idx = -1 => page.lastNonNullMonth = Null
           /\ idx # -1 =>
                 /\ idx \in 0..(Len(md.months) - 1)
                 /\ md.parsed[md.months[idx + 1]] # NullNum
                 /\ \A j \in (idx + 2)..Len(md.months) :
                       md.parsed[md.months[j]] = NullNum
                 /\ page.lastNonNullMonth = md.months[idx + 1]
           /\ md = SeriesOf(<<Num(10000), NullNum, NullNum>>) =>
                 (idx = 0 /\ page.lastNonNullMonth = "Gennaio")
           /\ md = SeriesOf(<<NullNum, Num(0)>>) =>
                 (idx = 1 /\ page.lastNonNullMonth = "Febbraio")

C19_Witness ==
    /\ Settled("SelectDrillDownMonth")
    /\ monthlyData = SeriesOf(<<NullNum, Num(0)>>)
    /\ page.lastNonNullIndex = 1

----------------------------------------------------------------------------
(* C18 - the batch and the store *)

\* C18: a run that got a batch with at least one day from ExtractDaily has
\* handed it to the store before it ends: saveDailyHourlyData was called for
\* it exactly once (calls counts the calls of saveDailyHourlyData).
C18_BatchHandedToStore ==
    (phase = "exited" /\ ~dailyData.isNull /\ dailyData.days > 0) => calls = 1

----------------------------------------------------------------------------
(* C20 - the number normalizers *)

\* C20: both normalizers map "1.234,56" to 1234.56, "" and "abc" to null, and
\* text that is already normalized to its own value: "12.3" to 12.3 and
\* "1.2" to 1.2.
C20_ParseLocaleNumber ==
    parser # "none" =>
        /\ cell = <<"1", ".", "2", "3", "4", ",", "5", "6">> => value = Num(Dec(123456, 2))
        /\ cell = <<>> => value = NullNum
        /\ cell = <<"a", "b", "c">> => value = NullNum
        /\ cell = <<"1", "2", ".", "3">> => value = Num(Dec(123, 1))
        /\ cell = <<"1", ".", "2">> => value = Num(Dec(12, 1))

----------------------------------------------------------------------------
(* C21 - null and zero *)

HasDigit(cs) == \E i \in 1..Len(cs) : IsDigit(cs[i])

\* digits, or digits with one comma and digits behind it
WellFormed(cs) ==
    /\ cs # <<>>
    /\ IsDigit(cs[1]) /\ IsDigit(cs[Len(cs)])
    /\ \A i \in 1..Len(cs) : IsDigit(cs[i]) \/ cs[i] = ","
    /\ Cardinality({i \in 1..Len(cs) : cs[i] = ","}) <= 1

\* the number a well-formed cell reads as
Reading(cs) ==
    LET commas == {i \in 1..Len(cs) : cs[i] = ","}
        k == IF commas = {} THEN Len(cs) + 1 ELSE CHOOSE i \in commas : TRUE
        digits == SelectSeq(cs, IsDigit)
    IN Num(Dec(ToNumber(digits), Len(cs) + 1 - k - (IF commas = {} THEN 0 ELSE 1)))

\* C21: a normalizer returns null or a finite number; a cell without a digit
\* gives null, the monthly normalizer gives null only for such a cell, a
\* well-formed cell gives the number it reads as, and "0" and "0,00" give the
\* number 0, not null.
C21_NullOrFiniteZeroIsZero ==
    parser # "none" =>
        /\ value = NullNum \/
              (Len(value) = 1 /\ value[1].m \in Int /\ value[1].e \in Nat)
        /\ ~HasDigit(cell) => value = NullNum
        /\ (parser = "monthly" /\ value = NullNum) => ~HasDigit(cell)
        /\ WellFormed(cell) => value = Reading(cell)
        /\ cell \in {<<"0">>, <<"0", ",", "0", "0">>} => value = Num([m |-> 0, e |-> 0])

C21_Witness ==
    /\ parser = "daily"
    /\ cell = <<"0", ",", "0", "0">>
    /\ value = Num([m |-> 0, e |-> 0])

----------------------------------------------------------------------------
(* C22, C23 - the calendar day of a row *)

\* the calendar day, in the process time zone, a row's timestamp lies on
LocalDay(r) == (r.timestamp + tz) \div 24

Nov1Strs == {"01/11/2025", "01.11.2025", "2025-11-01"}

\* 2025-11-01 as a day number
Nov1 == DaysFromCivil(2025, 10)

\* C22: in every process time zone a row read from any notation of 2025-11-01
\* lies on that calendar day, and saving the day in one notation after it was
\* saved in another addresses the same keys and creates no further row.
C22_SameDayInEveryNotation ==
    /\ \A r \in table : r.source_date \in Nov1Strs => LocalDay(r) = Nov1
    /\ (/\ Done("A")
        /\ batch["A"].days[1].date \in Nov1Strs
        /\ tableBefore["A"] # {}
        /\ \A r \in tableBefore["A"] : r.source_date \in Nov1Strs)
       => Keys(table) = Keys(tableBefore["A"])

\* C23: in a process in the Rome time zone no row is stored for a date string
\* that names no calendar day ("not-a-date", "31/02/2025", "00/13/2025"), so
\* every row lies on the calendar day its source_date names.
C23_NoRowForImpossibleDate ==
    tz = RomeOffset =>
        \A r \in table :
            /\ r.source_date \in Nov1Strs
            /\ LocalDay(r) = Nov1

----------------------------------------------------------------------------
(* C24, C25 - the day built from a row of the hourly table *)

\* a number in units of 0.0001
Units(d) == d.m * Pow10(4 - d.e)

\* the non-null values of an hours mapping summed, in units of 0.0001
RECURSIVE SumUnits(_, _)
SumUnits(hours, keys) ==
    IF keys = {} THEN 0
    ELSE LET l == CHOOSE k \in keys : TRUE
         IN (IF hours[l] = NullNum THEN 0 ELSE Units(hours[l][1]))
            + SumUnits(hours, keys \ {l})

\* C24: the total_kwh of every emitted day has at most three decimals and is
\* the number with three decimals nearest to the sum of the non-null values of
\* its hours; a day of 24 readings of 1.0 has total 24.0.
C24_TotalIsRoundedSum ==
    (dayReading.done /\ dayReading.pushed) =>
        /\ dayReading.total_kwh.e <= 3
        /\ LET diff == Units(dayReading.total_kwh) - SumUnits(dayReading.hours, DOMAIN dayReading.hours)
           IN 2 * diff <= 10 /\ 2 * diff >= 0 - 10
        /\ (/\ DOMAIN dayReading.hours = LabelSet
            /\ \A l \in LabelSet : dayReading.hours[l] = Num(Dec(1, 0)))
           => dayReading.total_kwh = Dec(24, 0)

\* a day of 24 readings of 0.0004: the sum 0.0096 is emitted as 0.01
C24_Witness ==
    /\ dayReading.done
    /\ dayReading.pushed
    /\ DOMAIN dayReading.hours = LabelSet
    /\ \A l \in LabelSet : dayReading.hours[l] = Num(Dec(4, 4))
    /\ dayReading.total_kwh = Dec(1, 2)

\* C25: the hours of every emitted day have exactly the 24 labels as keys,
\* whatever the number of value cells of the row.
C25_AlwaysTwentyFourKeys ==
    (dayReading.done /\ dayReading.pushed) => DOMAIN dayReading.hours = LabelSet

----------------------------------------------------------------------------
(* C26, C27, C28 - the pool and the schema *)

\* C26: every call of closePool returns normally and leaves no pool, whether
\* there was a pool or none; no pool is ever ended more than once, and a call
\* with no pool ends nothing and creates nothing.
C26_ClosePoolIdempotent ==
    [][(ops' # ops /\ poolOut'.op = "closePool") =>
          /\ poolOut'.result = "returned"
          /\ pool' = 0
          /\ poolCount' = poolCount
          /\ \A i \in 1..poolCount : ended'[i] <= 1
          /\ pool = 0 => ended' = ended]_vars

\* closePool was called with no pool after the pool had been ended
C26_Witness ==
    /\ poolOut.op = "closePool"
    /\ poolOut.poolBefore = 0
    /\ poolOut.result = "returned"
    /\ ended = <<1>>
    /\ pool = 0

\* C27: a call of initializeSchema in which nothing but the missing
\* partitioning capability goes wrong returns normally with the table and the
\* index in place, and the hypertable if TimescaleDB is installed; a call that
\* finds the table and the index in place leaves the schema as it was.
C27_SchemaIdempotentBestEffort ==
    (poolOut.op = "initializeSchema" /\ poolOut.fault = "none") =>
        /\ poolOut.result = "returned"
        /\ schema.table
        /\ schema.index
        /\ schema.hypertable = dbEnv.timescale
        /\ (poolOut.before.table /\ poolOut.before.index) => schema = poolOut.before

\* a second call without TimescaleDB
C27_Witness ==
    /\ poolOut.op = "initializeSchema"
    /\ poolOut.fault = "none"
    /\ poolOut.result = "returned"
    /\ ~dbEnv.timescale
    /\ poolOut.before.table
    /\ poolOut.before.index
    /\ schema = poolOut.before

\* the pools constructed and not ended
LivePools == {i \in 1..poolCount : ended[i] = 0}

\* C28: there is no pool before the first store operation; at most one pool is
\* live and the variable holds no other; an operation that finds a pool uses
\* it and constructs none; an operation that finds none constructs a fresh
\* one; only saveDailyHourlyData and initializeSchema construct pools.
C28_LazySingletonPool ==
    [][/\ ((calls = 0 /\ ops = 0) => (pool = 0 /\ poolCount = 0))
       /\ Cardinality(LivePools') <= 1
       /\ (pool' # 0 => pool' \in LivePools')
       /\ ((pool # 0 /\ pool' # 0) => (pool' = pool /\ poolCount' = poolCount))
       /\ ((pool = 0 /\ pool' # 0) =>
              (poolCount' = poolCount + 1 /\ pool' = poolCount' /\ ended' = Append(ended, 0)))
       /\ (poolCount' # poolCount =>
              (pc["A"] = "connect" \/ (ops' # ops /\ poolOut'.op = "initializeSchema")))]_vars

\* a second pool in use after the first was closed
C28_Witness ==
    /\ poolCount = 2
    /\ pool = 2
    /\ ended = <<1, 0>>

----------------------------------------------------------------------------
(* C29 - keys and hours of the stored rows *)

\* C29: whatever initializeSchema and saveDailyHourlyData calls were made, no
\* two rows of the table share a (timestamp, hour) key, and every row's hour is
\* an integer from 0 to 23, is the hour of day of the row's timestamp, and is
\* the hour of a label under which a batch carried the row's value for the
\* row's date.
C29_UniqueKeysHourOfLabel ==
    /\ NoDuplicateRow(table)
    /\ \A r \in table :
          /\ r.hour \in 0..23
          /\ (r.timestamp + tz) % 24 = r.hour
          /\ \E b \in PoolBatches : \E i \in 1..Len(b.days) :
                /\ b.days[i].date = r.source_date
                /\ HourLabels[r.hour + 1] \in DOMAIN b.days[i].hours
                /\ b.days[i].hours[HourLabels[r.hour + 1]] = Num(r.kwh)

\* after initializeSchema, both batches are stored: the rows of 01:00 and 23:00
C29_Witness ==
    /\ schema.table
    /\ Cardinality(table) = 2
    /\ \E r \in table : r.hour = 1 /\ r.kwh = 10000
    /\ \E r \in table : r.hour = 23 /\ r.kwh = 12000

----------------------------------------------------------------------------
(* C30 - the monthly series of a grid *)

\* C30: whatever grid was read, the months of the series hold no label twice,
\* there is one month per header cell, and the raw value of each header's
\* label is the text of the link of that header's column, or empty when the
\* column has no link.
C30_OneEntryPerHeaderOwnValue ==
    monthly.done =>
        /\ \A i, j \in 1..Len(monthly.months) :
              monthly.months[i] = monthly.months[j] => i = j
        /\ Len(monthly.months) = Len(grid)
        /\ \A i \in 1..Len(grid) :
              monthly.raw[grid[i].label] =
                  (IF grid[i].link = NoLink THEN "" ELSE grid[i].link)

----------------------------------------------------------------------------
(* C31 - the stored value against the reported one *)

----------------------------------------------------------------------------
(* C32 - the exit status of a run *)

\* the phase whose function was called last
LastStarted == IF started = <<>> THEN "none" ELSE started[Len(started)]

----------------------------------------------------------------------------
(* C33 - every run terminates *)

\* C33: a run that has reached Authenticate eventually ends, after success or
\* after failure, whatever phase it had got to.
C33_EveryRunTerminates == (phase = "Authenticate") ~> (phase = "exited")

\* a run that went through all six phases, wrote the daily file and ended
C33_Witness ==
    /\ phase = "exited"
    /\ Len(started) = Len(PhaseOrder)
    /\ written

----------------------------------------------------------------------------
(* C34 - overlapping runs *)

\* C34: at any time at most one child process started by the scheduler is
\* running.
C34_AtMostOneChildRunning == Cardinality(Running) <= 1

----------------------------------------------------------------------------
(* C35 - every acquired connection is released once *)

\* C35: a call of saveDailyHourlyData holds the one client it acquired while
\* it runs and has released it exactly once when it settles, after a COMMIT,
\* after a ROLLBACK and after a ROLLBACK that failed, with no rows of an open
\* transaction left; a call whose connect failed acquired and released
\* nothing; a call of initializeSchema that got a client released it once.
C35_ReleasedExactlyOnce ==
    /\ \A c \in Clients :
          /\ pc[c] \in {"begin", "select", "upsert", "commit", "rollback"} =>
                (acquired[c] = 1 /\ released[c] = 0)
          /\ pc[c] \in {"returned", "threw"} =>
                /\ released[c] = acquired[c]
                /\ acquired[c] = (IF outcome[c] = Threw("connect") THEN 0 ELSE 1)
                /\ writes[c] = {}
          /\ pc[c] \in {"idle", "connect"} => writes[c] = {}
    /\ poolOut.op = "initializeSchema" =>
          /\ poolOut.released = poolOut.acquired
          /\ poolOut.acquired = (IF poolOut.fault \in {"none", "hypertable"} THEN 1 ELSE 0)

\* a call whose ROLLBACK failed after a row had been written has settled
C35_Witness ==
    /\ pc["A"] = "threw"
    /\ outcome["A"] = Threw("rollback")
    /\ err["A"] = "commit"
    /\ acquired["A"] = 1
    /\ released["A"] = 1

----------------------------------------------------------------------------
(* C36 - which table the daily scrape picks *)

\* the tables whose id matches one of the searched texts
IdMatches == {i \in 1..Len(tables) : tables[i].id # "none"}

\* the tables whose header row has at least 24 header cells
WideTables == {i \in 1..Len(tables) : tables[i].ths >= 24}

\* C36: when a table is matched by id, a table matched by id is picked whatever
\* the header cells of the others; otherwise the first table in document order
\* with at least 24 header cells is picked; a table with no id match and fewer
\* than 24 header cells is never picked; and when no table qualifies none is
\* picked and the scrape reports an error, which gives no daily data.
C36_IdMatchThenFirstWideTable ==
    chosen.done =>
        /\ IdMatches # {} => chosen.index \in IdMatches
        /\ (IdMatches = {} /\ WideTables # {}) =>
              /\ chosen.index \in WideTables
              /\ \A i \in WideTables : chosen.index <= i
        /\ chosen.index # 0 => chosen.index \in IdMatches \cup WideTables
        /\ (IdMatches \cup WideTables = {}) =>
              (chosen.index = 0 /\ chosen.error # "none")

\* the second table is picked by its id though the first has 24 header cells
C36_Witness ==
    /\ chosen.done
    /\ Len(tables) = 2
    /\ tables[1].id = "none"
    /\ tables[1].ths = 24
    /\ tables[2].id = "Giornalier"
    /\ tables[2].ths = 0
    /\ chosen.index = 2

====
